---------------------------- MODULE Spec2Model ----------------------------
(***************************************************************************)
(* A model of the IFC viewer component of space-modeller                   *)
(* (src/space-modeller/src/app/features/ifc-viewer/ifc-viewer.component.ts)*)
(* and of the post-load pipeline it runs once loadIfc has resolved:        *)
(*   scene.add -> mesh attachment -> logSceneGraphDetails ->               *)
(*   addBoundingBoxHelper -> ensureMaterialsVisible -> render ->           *)
(*   bindCamera -> centerCameraOnModel -> currentModel update.             *)
(*                                                                         *)
(* Lengths are fixed-point numbers in tenths of a world unit, so the near  *)
(* plane 0.1 is 1 and the far plane 1000 is 10000.  Opacity is in tenths   *)
(* too (1.0 is 10).  Colours are 24-bit RGB integers.                      *)
(***************************************************************************)
EXTENDS Integers, Sequences, FiniteSets, TLC

VARIABLES
    isLoading,      \* signal isLoading
    currentModel,   \* signal currentModel: a ModelState or NoState
    loads,          \* the loadIfcFile invocations: load id -> where it is suspended
    inputValue,     \* value of the file input element
    scene,          \* scene.children: the top-level nodes of the scene
    model,          \* the FragmentsModel the pipeline last worked on (object + items)
    camera,         \* camera.position, camera.near, camera.far
    controlsTarget, \* controls.target
    diag,           \* what the pipeline wrote to the console during its last run
    service,        \* FragmentsService: its fields, the library objects it
                    \* holds, and the invocations of its async methods
    viewer          \* the animation loop, ngOnDestroy and the
                    \* downloadFragment invocations of the component

vars == <<isLoading, currentModel, loads, inputValue, scene, model, camera,
          controlsTarget, diag, service, viewer>>

---------------------------------------------------------------------------
(* Bounds of the model *)

MaxLoads == 2

MaxItems == 2

MaxVerifierRuns == 2

\* materials of one mesh, and runs of the material repair on one subtree
MaxMaterials == 2

MaxSanitizerRuns == 2

\* invocations of initialize(), loadIfc() and dispose() of FragmentsService,
\* all three counted together
MaxServiceCalls == 4

---------------------------------------------------------------------------
(* Program constants *)

CAMERA_CONFIG_fov == 60

CAMERA_CONFIG_near == 1

CAMERA_CONFIG_far == 10000

FrontSide == "FrontSide"

BackSide == "BackSide"

DoubleSide == "DoubleSide"

Black == 0

Gray == 11184810

Red == 16711680

---------------------------------------------------------------------------
(* Arithmetic helpers: what Math.max, Math.abs, Math.sqrt and Math.tan do  *)
(* on the fixed-point numbers.                                             *)

Max2(a, b) == IF a >= b THEN a ELSE b

Max3(a, b, c) == Max2(a, Max2(b, c))

Abs(a) == IF a < 0 THEN -a ELSE a

\* a / b rounded to the nearest integer, b > 0
RoundDiv(a, b) == IF a >= 0 THEN (2 * a + b) \div (2 * b)
                  ELSE -((2 * (-a) + b) \div (2 * b))

RECURSIVE FloorSqrtIn(_, _, _)
FloorSqrtIn(n, lo, hi) ==
    IF lo >= hi THEN lo
    ELSE LET mid == (lo + hi + 1) \div 2
         IN IF mid * mid <= n THEN FloorSqrtIn(n, mid, hi)
            ELSE FloorSqrtIn(n, lo, mid - 1)

\* Math.sqrt rounded to the nearest fixed-point number
Sqrt(n) == LET r == FloorSqrtIn(n, 0, 46340)
           IN IF n - r * r > r THEN r + 1 ELSE r

\* Math.tan(fov / 2) for fov given in degrees, as a fraction <<num, den>>
TanHalfFov(fovDeg) ==
    IF fovDeg = 60 THEN <<57735, 100000>>      \* tan 30 deg
    ELSE <<100000, 100000>>                    \* tan 45 deg (fov 90)

---------------------------------------------------------------------------
(* THREE.Vector3 and THREE.Box3 *)

Vec(x, y, z) == <<x, y, z>>

Origin == Vec(0, 0, 0)

VAdd(a, b) == Vec(a[1] + b[1], a[2] + b[2], a[3] + b[3])

VSub(a, b) == Vec(a[1] - b[1], a[2] - b[2], a[3] - b[3])

LengthSq(a) == a[1] * a[1] + a[2] * a[2] + a[3] * a[3]

\* Vector3.distanceTo
DistanceTo(a, b) == Sqrt(LengthSq(VSub(a, b)))

\* new THREE.Box3(): min = +Infinity, max = -Infinity
EmptyBox == [empty |-> TRUE, min |-> Origin, max |-> Origin]

MkBox(mn, mx) == [empty |-> FALSE, min |-> mn, max |-> mx]

Min2(a, b) == IF a <= b THEN a ELSE b

\* Box3.union / expandByPoint
BoxUnion(a, b) ==
    IF a.empty THEN b
    ELSE IF b.empty THEN a
    ELSE MkBox(Vec(Min2(a.min[1], b.min[1]), Min2(a.min[2], b.min[2]),
                   Min2(a.min[3], b.min[3])),
               Vec(Max2(a.max[1], b.max[1]), Max2(a.max[2], b.max[2]),
                   Max2(a.max[3], b.max[3])))

\* Box3.isEmpty
BoxIsEmpty(b) == b.empty

\* Box3.getCenter: the origin for an empty box, else (min + max) * 0.5
BoxGetCenter(b) ==
    IF b.empty THEN Origin
    ELSE Vec((b.min[1] + b.max[1]) \div 2, (b.min[2] + b.max[2]) \div 2,
             (b.min[3] + b.max[3]) \div 2)

\* Box3.getSize: zero for an empty box, else max - min
BoxGetSize(b) == IF b.empty THEN Origin ELSE VSub(b.max, b.min)

---------------------------------------------------------------------------
(* Scene nodes (THREE.Object3D) and materials.                              *)
(* A node is a Mesh (geometry with a bounding box, a material or an array   *)
(* of materials) or a Group (no geometry).  A missing material (undefined)  *)
(* is the record NoMaterial; a missing mesh payload of an item is NoMesh.   *)

Material(transparent, opacity, side, hasColor, color) ==
    [present |-> TRUE, visible |-> TRUE, transparent |-> transparent,
     opacity |-> opacity, side |-> side, hasColor |-> hasColor,
     color |-> color, needsUpdate |-> FALSE]

NoMaterial ==
    [present |-> FALSE, visible |-> FALSE, transparent |-> FALSE,
     opacity |-> 0, side |-> FrontSide, hasColor |-> FALSE, color |-> Black,
     needsUpdate |-> FALSE]

Mesh(id, visible, geom, vertices, matIsArray, mats) ==
    [kind |-> "Mesh", id |-> id, visible |-> visible, frustumCulled |-> TRUE,
     geom |-> geom, vertices |-> vertices, matIsArray |-> matIsArray,
     mats |-> mats, children |-> <<>>]

Group(id, children) ==
    [kind |-> "Group", id |-> id, visible |-> TRUE, frustumCulled |-> TRUE,
     geom |-> EmptyBox, vertices |-> 0, matIsArray |-> FALSE,
     mats |-> <<>>, children |-> children]

NoMesh == [kind |-> "null", id |-> 0]

IsMesh(n) == n.kind = "Mesh"

\* Object3D.traverse: the node itself, then every descendant, depth first
RECURSIVE Traverse(_)
RECURSIVE TraverseAll(_)
Traverse(n) == <<n>> \o TraverseAll(n.children)
TraverseAll(ns) ==
    IF ns = <<>> THEN <<>> ELSE Traverse(Head(ns)) \o TraverseAll(Tail(ns))

RECURSIVE BoxOfAll(_)
BoxOfAll(ns) ==
    IF ns = <<>> THEN EmptyBox
    ELSE BoxUnion(IF IsMesh(Head(ns)) THEN Head(ns).geom ELSE EmptyBox,
                  BoxOfAll(Tail(ns)))

\* new THREE.Box3().setFromObject(object): the union of the geometry boxes of
\* the subtree (world transforms are the identity here)
SetFromObject(object) == BoxOfAll(Traverse(object))

---------------------------------------------------------------------------
(* The FragmentsModel returned by FragmentsService.getModel: model.object   *)
(* (the root container) and model.items (a Map in insertion order, or       *)
(* undefined).                                                              *)

Item(key, mesh) == [key |-> key, mesh |-> mesh]

FragmentsModel(id, children, hasItems, items) ==
    [present |-> TRUE, object |-> Group(id, children), hasItems |-> hasItems,
     items |-> items]

NoModel == [present |-> FALSE, object |-> Group(0, <<>>),
            hasItems |-> FALSE, items |-> <<>>]

---------------------------------------------------------------------------
(* Mesh attachment ("CRITICAL FIX" of loadIfcFile): when model.object has   *)
(* no children and model.items is a non-empty Map, every item's mesh that   *)
(* is not null is added to model.object, in the Map's iteration order.      *)

\* Object3D.add(object): the object leaves its previous parent (here: an
\* earlier position among the same children) and is pushed at the end
Object3DAdd(children, object) ==
    Append(SelectSeq(children, LAMBDA c : c.id # object.id), object)

\* a loop that leaves after the first mesh it attached
AttachLoopBreak(children, items, addedCount) ==
    IF items = <<>> THEN <<children, addedCount>>
    ELSE IF Head(items).mesh.kind # "null"
         THEN <<Object3DAdd(children, Head(items).mesh), addedCount + 1>>
         ELSE <<children, addedCount>>

\* a loop without the test of fragment.mesh
RECURSIVE AttachLoopNoNullTest(_, _, _)
AttachLoopNoNullTest(children, items, addedCount) ==
    IF items = <<>> THEN <<children, addedCount>>
    ELSE AttachLoopNoNullTest(Object3DAdd(children, Head(items).mesh),
                              Tail(items), addedCount + 1)

\* the for-of loop over model.items: <<children, addedCount>>
RECURSIVE AttachLoop(_, _, _)
AttachLoop(children, items, addedCount) ==
    IF items = <<>> THEN <<children, addedCount>>
    ELSE IF Head(items).mesh.kind # "null"
         THEN AttachLoop(Object3DAdd(children, Head(items).mesh), Tail(items),
                         addedCount + 1)
         ELSE AttachLoop(children, Tail(items), addedCount)

\* a guard without the emptiness test of model.object.children
AttachGateNoEmptinessTest(m) == m.hasItems /\ Len(m.items) > 0

\* the guard of the repair: model.object.children.length === 0 &&
\* model.items && model.items.size > 0
AttachGate(m) ==
    Len(m.object.children) = 0 /\ m.hasItems /\ Len(m.items) > 0

\* the repair step: the model after it, and what it logged
attachFragmentMeshes(m) ==
    IF AttachGate(m)
    THEN LET r == AttachLoop(m.object.children, m.items, 0)
         IN [model |-> [m EXCEPT !.object.children = r[1]],
             entered |-> TRUE, addedCount |-> r[2]]
    ELSE [model |-> m, entered |-> FALSE, addedCount |-> 0]

---------------------------------------------------------------------------
(* logSceneGraphDetails: a read-only traversal that logs counts and the     *)
(* bounding box of the subtree.                                             *)

RECURSIVE SumVertices(_)
SumVertices(ns) ==
    IF ns = <<>> THEN 0
    ELSE (IF IsMesh(Head(ns)) THEN Head(ns).vertices ELSE 0) + SumVertices(Tail(ns))

\* child.material is truthy: an array (even an empty one) or a present material
MaterialTruthy(n) == n.matIsArray \/ (Len(n.mats) > 0 /\ n.mats[1].present)

\* a report that calls only an empty bounding box zero-sized
logSceneGraphDetailsEmptyOnly(object) ==
    LET nodes == Traverse(object)
        box == SetFromObject(object)
        size == BoxGetSize(box)
    IN [childrenCount |-> Len(object.children),
        meshCount |-> Len(SelectSeq(nodes, IsMesh)),
        vertexCount |-> SumVertices(nodes),
        materialCount |-> Len(SelectSeq(nodes,
            LAMBDA n : IsMesh(n) /\ MaterialTruthy(n))),
        center |-> BoxGetCenter(box),
        size |-> size,
        maxDim |-> Max3(size[1], size[2], size[3]),
        isZeroSize |-> BoxIsEmpty(box)]

logSceneGraphDetails(object) ==
    LET nodes == Traverse(object)
        box == SetFromObject(object)
        size == BoxGetSize(box)
    IN [childrenCount |-> Len(object.children),
        meshCount |-> Len(SelectSeq(nodes, IsMesh)),
        vertexCount |-> SumVertices(nodes),
        materialCount |-> Len(SelectSeq(nodes,
            LAMBDA n : IsMesh(n) /\ MaterialTruthy(n))),
        center |-> BoxGetCenter(box),
        size |-> size,
        maxDim |-> Max3(size[1], size[2], size[3]),
        isZeroSize |-> LengthSq(size) = 0]

---------------------------------------------------------------------------
(* addBoundingBoxHelper: a new Box3Helper is added to the scene unless the  *)
(* bounding box of the model is empty.                                      *)

SceneNode(kind, ref) == [kind |-> kind, ref |-> ref]

\* scene.add(object): Object3D.add on the scene's children
SceneAdd(children, node) ==
    Append(SelectSeq(children, LAMBDA c : c # node), node)

\* a helper that is added whether or not the box is empty
addBoundingBoxHelperAlways(children, object, ref) ==
    SceneAdd(children, SceneNode("BoundingBoxHelper", ref))

addBoundingBoxHelper(children, object, ref) ==
    IF BoxIsEmpty(SetFromObject(object)) THEN children
    ELSE SceneAdd(children, SceneNode("BoundingBoxHelper", ref))

---------------------------------------------------------------------------
(* ensureMaterialsVisible: every Mesh of the subtree is made visible and    *)
(* taken out of frustum culling; each of its materials is made visible,     *)
(* repaired and flagged needsUpdate.  materialsFixed counts the repairs.    *)

\* the body of materials.forEach for one material: <<material, fixes>>
\* a repair that counts a material once however many of its fields it fixed
fixMaterialCountOnce(material) ==
    IF ~material.present THEN <<material, 0>>
    ELSE LET fixOpacity == material.transparent /\ material.opacity = 0
             fixSide == material.side = FrontSide
             fixColor == material.hasColor /\ material.color = Black
         IN <<[material EXCEPT
                 !.visible = TRUE,
                 !.opacity = IF fixOpacity THEN 10 ELSE @,
                 !.side = IF fixSide THEN DoubleSide ELSE @,
                 !.needsUpdate = TRUE,
                 !.color = IF fixColor THEN Gray ELSE @],
              IF fixOpacity \/ fixSide \/ fixColor THEN 1 ELSE 0>>

\* a repair that resets every zero opacity, transparent or not
fixMaterialAnyZeroOpacity(material) ==
    IF ~material.present THEN <<material, 0>>
    ELSE LET fixOpacity == material.opacity = 0
             fixSide == material.side = FrontSide
             fixColor == material.hasColor /\ material.color = Black
         IN <<[material EXCEPT
                 !.visible = TRUE,
                 !.opacity = IF fixOpacity THEN 10 ELSE @,
                 !.side = IF fixSide THEN DoubleSide ELSE @,
                 !.needsUpdate = TRUE,
                 !.color = IF fixColor THEN Gray ELSE @],
              (IF fixOpacity THEN 1 ELSE 0) + (IF fixSide THEN 1 ELSE 0)
                + (IF fixColor THEN 1 ELSE 0)>>

\* a repair that does not ask whether the material has a colour
fixMaterialNoColourTest(material) ==
    IF ~material.present THEN <<material, 0>>
    ELSE LET fixOpacity == material.transparent /\ material.opacity = 0
             fixSide == material.side = FrontSide
             fixColor == material.color = Black
         IN <<[material EXCEPT
                 !.visible = TRUE,
                 !.opacity = IF fixOpacity THEN 10 ELSE @,
                 !.side = IF fixSide THEN DoubleSide ELSE @,
                 !.needsUpdate = TRUE,
                 !.color = IF fixColor THEN Gray ELSE @],
              (IF fixOpacity THEN 1 ELSE 0) + (IF fixSide THEN 1 ELSE 0)
                + (IF fixColor THEN 1 ELSE 0)>>

\* a repair that switches every side that is not DoubleSide
fixMaterialEverySide(material) ==
    IF ~material.present THEN <<material, 0>>
    ELSE LET fixOpacity == material.transparent /\ material.opacity = 0
             fixSide == material.side # DoubleSide
             fixColor == material.hasColor /\ material.color = Black
         IN <<[material EXCEPT
                 !.visible = TRUE,
                 !.opacity = IF fixOpacity THEN 10 ELSE @,
                 !.side = IF fixSide THEN DoubleSide ELSE @,
                 !.needsUpdate = TRUE,
                 !.color = IF fixColor THEN Gray ELSE @],
              (IF fixOpacity THEN 1 ELSE 0) + (IF fixSide THEN 1 ELSE 0)
                + (IF fixColor THEN 1 ELSE 0)>>

\* a repair whose three tests are chained with else: one correction per
\* material and run
fixMaterialFirstTriggerOnly(material) ==
    IF ~material.present THEN <<material, 0>>
    ELSE LET fixOpacity == material.transparent /\ material.opacity = 0
             fixSide == ~fixOpacity /\ material.side = FrontSide
             fixColor == /\ ~fixOpacity /\ ~fixSide
                         /\ material.hasColor /\ material.color = Black
         IN <<[material EXCEPT
                 !.visible = TRUE,
                 !.opacity = IF fixOpacity THEN 10 ELSE @,
                 !.side = IF fixSide THEN DoubleSide ELSE @,
                 !.needsUpdate = TRUE,
                 !.color = IF fixColor THEN Gray ELSE @],
              (IF fixOpacity THEN 1 ELSE 0) + (IF fixSide THEN 1 ELSE 0)
                + (IF fixColor THEN 1 ELSE 0)>>

fixMaterial(material) ==
    IF ~material.present THEN <<material, 0>>
    ELSE LET fixOpacity == material.transparent /\ material.opacity = 0
             fixSide == material.side = FrontSide
             fixColor == material.hasColor /\ material.color = Black
         IN <<[material EXCEPT
                 !.visible = TRUE,
                 !.opacity = IF fixOpacity THEN 10 ELSE @,
                 !.side = IF fixSide THEN DoubleSide ELSE @,
                 !.needsUpdate = TRUE,
                 !.color = IF fixColor THEN Gray ELSE @],
              (IF fixOpacity THEN 1 ELSE 0) + (IF fixSide THEN 1 ELSE 0)
                + (IF fixColor THEN 1 ELSE 0)>>

\* materials.forEach: <<materials, fixes>>
RECURSIVE fixMaterials(_)
fixMaterials(mats) ==
    IF mats = <<>> THEN <<(<<>>), 0>>
    ELSE LET h == fixMaterial(Head(mats))
             t == fixMaterials(Tail(mats))
         IN <<(<<h[1]>>) \o t[1], h[2] + t[2]>>

\* the traverse callback applied to a node and to its descendants:
\* <<node, fixes>>
RECURSIVE SanitizeNode(_)
RECURSIVE SanitizeNodes(_)
SanitizeNode(n) ==
    LET kids == SanitizeNodes(n.children)
    IN IF IsMesh(n)
       THEN LET f == fixMaterials(n.mats)
            IN <<[n EXCEPT !.visible = TRUE, !.frustumCulled = FALSE,
                           !.mats = f[1], !.children = kids[1]],
                 f[2] + kids[2]>>
       ELSE <<[n EXCEPT !.children = kids[1]], kids[2]>>
SanitizeNodes(ns) ==
    IF ns = <<>> THEN <<(<<>>), 0>>
    ELSE LET h == SanitizeNode(Head(ns))
             t == SanitizeNodes(Tail(ns))
         IN <<(<<h[1]>>) \o t[1], h[2] + t[2]>>

ensureMaterialsVisible(object) ==
    LET r == SanitizeNode(object)
    IN [object |-> r[1], materialsFixed |-> r[2]]

---------------------------------------------------------------------------
(* centerCameraOnModel: the camera is placed on the diagonal through the    *)
(* centre of the model's bounding box and the clip planes are widened or    *)
(* narrowed to the recommended values; an empty or zero-size box gives the  *)
(* fallback position (10,10,10) looking at the origin.                      *)

Camera(position, near, far) ==
    [position |-> position, fov |-> CAMERA_CONFIG_fov, near |-> near, far |-> far]

\* a fallback that puts the camera at the origin
FallbackPositionOrigin == Vec(0, 0, 0)

FallbackPosition == Vec(100, 100, 100)

\* Vector3.length
Length(a) == Sqrt(LengthSq(a))

\* cameraZ without the padding factor
CameraZNoPadding(maxDim, fovDeg) ==
    LET t == TanHalfFov(fovDeg)
    IN Abs(RoundDiv(maxDim * t[2], 2 * t[1]))

\* Math.abs(maxDim / 2 / Math.tan(fov / 2)), then cameraZ *= 1.5; the
\* quotient is rounded once, to the nearest fixed-point number
CameraZ(maxDim, fovDeg) ==
    LET t == TanHalfFov(fovDeg)
    IN Abs(RoundDiv(maxDim * t[2] * 3, 4 * t[1]))

\* Math.max(0.1, distanceToCenter / 100)
RecommendedNear(distanceToCenter) == Max2(1, RoundDiv(distanceToCenter, 100))

\* a far plane without the floor of 1000
RecommendedFarNoFloor(distanceToCenter, maxDim) ==
    (distanceToCenter + maxDim) * 2

\* Math.max(1000, (distanceToCenter + maxDim) * 2)
RecommendedFar(distanceToCenter, maxDim) ==
    Max2(10000, (distanceToCenter + maxDim) * 2)

\* a test that asks for both planes to be off
PlanesNeedAdjustmentBoth(cam, recommendedNear, recommendedFar) ==
    cam.near > recommendedNear /\ cam.far < recommendedFar

\* the test that decides whether the planes are replaced
PlanesNeedAdjustment(cam, recommendedNear, recommendedFar) ==
    cam.near > recommendedNear \/ cam.far < recommendedFar

\* a placement that keeps the direction from the centre to the camera's
\* position before the fit (direction.multiplyScalar(distance).add(center));
\* normalize() leaves a zero vector as it is
FitPositionKeepDirection(cam, center, cameraZ) ==
    LET d == VSub(cam.position, center)
        len == Length(d)
    IN IF len = 0 THEN center
       ELSE VAdd(center, Vec(RoundDiv(d[1] * cameraZ, len),
                             RoundDiv(d[2] * cameraZ, len),
                             RoundDiv(d[3] * cameraZ, len)))

\* where the camera is put in the normal case
FitPosition(cam, center, cameraZ) ==
    Vec(center[1] + cameraZ, center[2] + cameraZ, center[3] + cameraZ)

NoFit == [case |-> "none", center |-> Origin, maxDim |-> 0, cameraZ |-> 0,
          distanceToCenter |-> 0, recommendedNear |-> 0, recommendedFar |-> 0,
          adjusted |-> FALSE]

centerCameraOnModel(object, cam, target) ==
    LET box == SetFromObject(object)
        center == BoxGetCenter(box)
        size == BoxGetSize(box)
        maxDim == Max3(size[1], size[2], size[3])
    IN IF BoxIsEmpty(box)
       THEN [camera |-> [cam EXCEPT !.position = FallbackPosition],
             target |-> Origin,
             errors |-> <<"Cannot center camera - bounding box is empty!">>,
             fit |-> [NoFit EXCEPT !.case = "empty"]]
       ELSE IF maxDim = 0
       THEN [camera |-> [cam EXCEPT !.position = FallbackPosition],
             target |-> Origin,
             errors |-> <<"Model has zero dimensions!">>,
             fit |-> [NoFit EXCEPT !.case = "zero", !.center = center]]
       ELSE LET cameraZ == CameraZ(maxDim, cam.fov)
                position == FitPosition(cam, center, cameraZ)
                distanceToCenter == DistanceTo(position, center)
                recommendedNear == RecommendedNear(distanceToCenter)
                recommendedFar == RecommendedFar(distanceToCenter, maxDim)
                adjust == PlanesNeedAdjustment(cam, recommendedNear, recommendedFar)
            IN [camera |-> [cam EXCEPT
                              !.position = position,
                              !.near = IF adjust THEN recommendedNear ELSE @,
                              !.far = IF adjust THEN recommendedFar ELSE @],
                target |-> center,
                errors |-> <<>>,
                fit |-> [case |-> "normal", center |-> center, maxDim |-> maxDim,
                         cameraZ |-> cameraZ,
                         distanceToCenter |-> distanceToCenter,
                         recommendedNear |-> recommendedNear,
                         recommendedFar |-> recommendedFar,
                         adjusted |-> adjust]]

---------------------------------------------------------------------------
(* The synchronous part of loadIfcFile that follows getModel: each step     *)
(* works on the world the previous step left and writes to the console.     *)
(* A world is [scene, model, camera, target, diag].                         *)

NoReport == [childrenCount |-> 0, meshCount |-> 0, vertexCount |-> 0,
             materialCount |-> 0, center |-> Origin, size |-> Origin,
             maxDim |-> 0, isZeroSize |-> FALSE]

NoDiag == [trace |-> <<>>, errors |-> <<>>,
           attachEntered |-> FALSE, addedCount |-> 0,
           beforeAttach |-> NoModel.object,
           report |-> NoReport,
           beforeSanitize |-> NoModel.object, materialsFixed |-> 0,
           cameraBefore |-> Camera(Origin, 0, 0), targetBefore |-> Origin,
           fit |-> NoFit]

Logged(w, step) == [w EXCEPT !.diag.trace = Append(@, step)]

\* this.scene.add(model.object)
StepSceneAdd(w, m, ref) ==
    [Logged(w, "sceneAdd") EXCEPT
        !.scene = SceneAdd(@, SceneNode("ModelRoot", ref)),
        !.model = m]

\* the mesh attachment repair
StepVerifier(w) ==
    LET r == attachFragmentMeshes(w.model)
    IN [Logged(w, "Verifier") EXCEPT
          !.model = r.model,
          !.diag.beforeAttach = w.model.object,
          !.diag.attachEntered = r.entered,
          !.diag.addedCount = r.addedCount]

\* this.logSceneGraphDetails(model.object)
StepReporter(w) ==
    [Logged(w, "Reporter") EXCEPT
        !.diag.report = logSceneGraphDetails(w.model.object)]

\* this.addBoundingBoxHelper(model.object)
StepBoxHelper(w, ref) ==
    [Logged(w, "BoundingBoxHelper") EXCEPT
        !.scene = addBoundingBoxHelper(@, w.model.object, ref)]

\* this.ensureMaterialsVisible(model.object)
StepSanitizer(w) ==
    LET r == ensureMaterialsVisible(w.model.object)
    IN [Logged(w, "Sanitizer") EXCEPT
          !.model.object = r.object,
          !.diag.beforeSanitize = w.model.object,
          !.diag.materialsFixed = r.materialsFixed]

\* this.renderer.render(this.scene, this.camera)
StepRender(w) == Logged(w, "render")

\* this.fragmentsService.bindCamera(this.camera)
StepBindCamera(w) == Logged(w, "bindCamera")

\* this.centerCameraOnModel(model.object)
StepFitter(w) ==
    LET r == centerCameraOnModel(w.model.object, w.camera, w.target)
    IN [Logged(w, "Fitter") EXCEPT
          !.camera = r.camera,
          !.target = r.target,
          !.diag.errors = @ \o r.errors,
          !.diag.cameraBefore = w.camera,
          !.diag.targetBefore = w.target,
          !.diag.fit = r.fit]

\* a pipeline that reports last: Verifier, Sanitizer, Fitter, Reporter
PostLoadPipelineReportLast(w, m, ref) ==
    LET w1 == StepSceneAdd(w, m, ref)
        w2 == StepVerifier(w1)
        w3 == StepBoxHelper(w2, ref)
        w4 == StepSanitizer(w3)
        w5 == StepRender(w4)
        w6 == StepBindCamera(w5)
        w7 == StepFitter(w6)
        w8 == StepReporter(w7)
    IN w8

\* lines 303-343 of loadIfcFile, in the order of the code
PostLoadPipeline(w, m, ref) ==
    LET w1 == StepSceneAdd(w, m, ref)
        w2 == StepVerifier(w1)
        w3 == StepReporter(w2)
        w4 == StepBoxHelper(w3, ref)
        w5 == StepSanitizer(w4)
        w6 == StepRender(w5)
        w7 == StepBindCamera(w6)
        w8 == StepFitter(w7)
    IN w8

---------------------------------------------------------------------------
(* The inputs: files the user can select and models the parser can return. *)

BoxA == MkBox(Vec(0, 0, 0), Vec(100, 50, 100))          \* size [10, 5, 10]
BoxB == MkBox(Vec(-40, 0, 20), Vec(20, 30, 40))         \* size [6, 3, 2]
BoxPoint == MkBox(Vec(20, 20, 20), Vec(20, 20, 20))     \* collapsed to a point
BoxLarge == MkBox(Vec(-1000, 0, -1000), Vec(1000, 400, 1000))  \* size [200, 40, 200]

MatOk == Material(FALSE, 10, DoubleSide, TRUE, Red)
MatBad == Material(TRUE, 0, FrontSide, TRUE, Black)
MatFront == Material(TRUE, 5, FrontSide, TRUE, Gray)
MatNoColor == Material(FALSE, 0, BackSide, FALSE, Black)

\* the meshes a fragment can carry; kind 0 is a null mesh payload
MeshOfKind(kind, id) ==
    CASE kind = 1 -> Mesh(id, TRUE, BoxA, 24, FALSE, <<MatOk>>)
      [] kind = 2 -> Mesh(id, FALSE, BoxB, 8, FALSE, <<MatBad>>)
      [] kind = 3 -> Mesh(id, TRUE, BoxPoint, 1, FALSE, <<NoMaterial>>)
      [] kind = 4 -> Mesh(id, TRUE, BoxLarge, 36, TRUE, <<MatFront, MatNoColor>>)
      [] OTHER -> NoMesh

MeshKinds == 0..4

\* model.items built from a sequence of mesh kinds: item i has key i and,
\* unless its kind is 0, its own mesh
ItemsOf(kinds) ==
    [i \in 1..Len(kinds) |-> Item(i, MeshOfKind(kinds[i], 10 + i))]

\* what model.object holds when the library attached children itself
PreAttached(p) ==
    CASE p = 1 -> <<MeshOfKind(1, 1)>>
      [] p = 2 -> <<Group(2, <<MeshOfKind(2, 3)>>), MeshOfKind(3, 4)>>
      [] OTHER -> <<>>

MkModel(p, hasItems, kinds) ==
    FragmentsModel(100, PreAttached(p), hasItems, ItemsOf(kinds))

\* the models FragmentsService.getModel returns in the component's runs
Models ==
    {MkModel(0, FALSE, <<>>)}
    \cup {MkModel(0, TRUE, k) : k \in {<<>>, <<0>>, <<1>>, <<2>>, <<3>>, <<4>>,
                                       <<1, 2>>, <<0, 1>>, <<4, 1>>, <<2, 0>>}}
    \cup {MkModel(1, TRUE, k) : k \in {<<1>>, <<0, 2>>}}
    \cup {MkModel(2, TRUE, <<>>), MkModel(2, FALSE, <<>>)}

NoFile == ""

Files == {NoFile, "house.ifc", "PLAN.IFC", "notes.txt"}

\* a test that accepts every file name
EndsWithIfcAnyName(f) == f \in {"house.ifc", "PLAN.IFC", "notes.txt"}

\* file.name.toLowerCase().endsWith('.ifc')
EndsWithIfc(f) == f \in {"house.ifc", "PLAN.IFC"}

\* file.name.replace('.ifc', ''): only a lower-case '.ifc' is removed
ModelName(f) == IF f = "house.ifc" THEN "house" ELSE f

---------------------------------------------------------------------------
(* ModelState (viewer.model.ts) and the component's signals *)

NoState == [present |-> FALSE, id |-> 0, name |-> "", loading |-> FALSE,
            progress |-> 0, fragmentUuid |-> 0, error |-> ""]

ModelState(id, name) ==
    [present |-> TRUE, id |-> id, name |-> name, loading |-> TRUE,
     progress |-> 0, fragmentUuid |-> 0, error |-> ""]

\* currentModel.update(state => state ? updated : state)
UpdateState(state, updated) == IF state.present THEN updated ELSE state

LoadIds == 1..MaxLoads

IdleLoad == [pc |-> "idle"]

---------------------------------------------------------------------------
(* FragmentsService.  components, fragmentsManager and ifcLoader hold the   *)
(* number of the OBC.Components instance they came from, 0 for null.        *)
(* managerInitialized and list are the state of the library's               *)
(* FragmentsManager objects; created, initCalls, loadCalls and the dispose  *)
(* records count the calls the service made on the library.                 *)

Null == 0

InitializeIds == 1..MaxServiceCalls
LoadIfcIds == 1..MaxServiceCalls
DisposeIds == 1..MaxServiceCalls
ExportIds == 1..MaxServiceCalls

NewService ==
    [components |-> Null, fragmentsManager |-> Null, ifcLoader |-> Null,
     initialized |-> FALSE,
     managerInitialized |-> {}, list |-> <<>>,
     created |-> 0, initCalls |-> 0, loadCalls |-> 0,
     modelDisposeCalls |-> {}, loaderDisposeCalls |-> {},
     componentsDisposeCalls |-> {},
     initializes |-> [k \in InitializeIds |-> "idle"],
     loadIfcs |-> [j \in LoadIfcIds |->
                     [pc |-> "idle", manager |-> Null, outcome |-> "none",
                      result |-> Null, message |-> ""]],
     disposes |-> [d \in DisposeIds |->
                     [pc |-> "idle", models |-> <<>>, queue |-> <<>>]],
     exports |-> [e \in ExportIds |->
                    [pc |-> "idle", id |-> Null, outcome |-> "none",
                     byteLength |-> 0, result |-> "none", length |-> 0]]]

\* the invocations made so far
StartedCalls(s) ==
    Cardinality({k \in InitializeIds : s.initializes[k] # "idle"})
    + Cardinality({j \in LoadIfcIds : s.loadIfcs[j].pc # "idle"})
    + Cardinality({d \in DisposeIds : s.disposes[d].pc # "idle"})
    + Cardinality({e \in ExportIds : s.exports[e].pc # "idle"})

\* isInitialized()
isInitialized(s) == s.initialized

\* the first test of loadIfc
ServiceReady(s) ==
    s.initialized /\ s.ifcLoader # Null /\ s.fragmentsManager # Null

\* this.fragmentsManager.initialized
ManagerInitialized(s) == s.fragmentsManager \in s.managerInitialized

\* a loadIfc that does not look at the manager's flag
CanLoadNoManagerTest(s) == ServiceReady(s)

\* loadIfc reaches ifcLoader.load
CanLoad(s) == ServiceReady(s) /\ ManagerInitialized(s)

\* getModel(id): the model of this.fragmentsManager.list with that id, Null
\* for undefined
getModel(s, id) ==
    IF s.fragmentsManager = Null THEN Null
    ELSE IF \E k \in 1..Len(s.list) :
                s.list[k].manager = s.fragmentsManager /\ s.list[k].id = id
         THEN id
         ELSE Null

\* the lengths of the buffers model.getBuffer() resolves with
BufferLengths == {0, 10}

\* an export that lets the failure of getBuffer through
ExportedNoCatch(outcome, byteLength) ==
    IF outcome = "rejected" THEN [result |-> "rejected", length |-> 0]
    ELSE [result |-> "bytes", length |-> byteLength]

\* what exportFragment resolves with once getBuffer has settled: new
\* Uint8Array(buffer), which has buffer.byteLength elements, or null from
\* the catch
Exported(outcome, byteLength) ==
    IF outcome = "rejected" THEN [result |-> "null", length |-> 0]
    ELSE [result |-> "bytes", length |-> byteLength]

\* getAllModels(): the models of this.fragmentsManager.list, in its order
getAllModels(s) ==
    IF s.fragmentsManager = Null THEN <<>>
    ELSE LET mine == SelectSeq(s.list, LAMBDA e : e.manager = s.fragmentsManager)
         IN [k \in 1..Len(mine) |-> mine[k].id]

\* a dispose that gives up the reset when disposing the loader or the
\* components throws
DisposeRestNoCatch(s, loaderThrows, componentsThrows) ==
    LET called ==
          [s EXCEPT
             !.loaderDisposeCalls =
                 IF s.ifcLoader # Null THEN @ \cup {s.ifcLoader} ELSE @,
             !.componentsDisposeCalls =
                 IF s.components # Null /\ ~(s.ifcLoader # Null /\ loaderThrows)
                 THEN @ \cup {s.components} ELSE @]
    IN IF (s.ifcLoader # Null /\ loaderThrows)
          \/ (s.components # Null /\ componentsThrows)
       THEN called
       ELSE [called EXCEPT !.fragmentsManager = Null, !.ifcLoader = Null,
                           !.components = Null, !.initialized = FALSE]

\* dispose() after the loop over the models: the loader and the components
\* are disposed, each in its own try, and the fields are reset
DisposeRest(s, loaderThrows, componentsThrows) ==
    [s EXCEPT
       !.loaderDisposeCalls =
           IF s.ifcLoader # Null THEN @ \cup {s.ifcLoader} ELSE @,
       !.componentsDisposeCalls =
           IF s.components # Null THEN @ \cup {s.components} ELSE @,
       !.fragmentsManager = Null, !.ifcLoader = Null, !.components = Null,
       !.initialized = FALSE]

---------------------------------------------------------------------------
(* The rest of the component: the animation loop, downloadFragment and      *)
(* ngOnDestroy.                                                             *)

MaxViewerCalls == 3

DownloadIds == 1..MaxViewerCalls

\* the calls ngOnDestroy makes, in the order of the code
TeardownSteps ==
    <<"cancelAnimationFrame", "stats.dom.remove", "controls.dispose",
      "resizeObserver.disconnect", "scene.traverse", "renderer.dispose",
      "renderer.forceContextLoss", "fragmentsService.dispose">>

\* the calls of ngOnDestroy that can throw: cancelAnimationFrame does not,
\* and a failure of the async fragmentsService.dispose() is a rejection,
\* which .catch(console.error) takes
ThrowingSteps == 2..7

NoThrow == 0

\* the component after initViewer and the first call of animate: a frame is
\* requested, nothing is torn down, no download was asked for
NewViewer ==
    [frameRequested |-> TRUE, frames |-> 0,
     destroyed |-> FALSE, teardown |-> <<>>, logged |-> FALSE,
     threw |-> FALSE,
     downloads |-> [d \in DownloadIds |->
                      [pc |-> "idle", uuid |-> 0, name |-> "",
                       outcome |-> "none", clicked |-> FALSE,
                       rejected |-> FALSE]]]

\* the calls ngOnDestroy has made when the step throwsAt throws: the try
\* block is left at the first exception
Teardown(throwsAt) ==
    IF throwsAt = NoThrow THEN TeardownSteps
    ELSE SubSeq(TeardownSteps, 1, throwsAt)

\* whether downloadFragment gets to link.click(): a null buffer throws
\* 'Failed to export fragment' and a rejection is thrown by the await, both
\* inside the try
Downloaded(outcome) == outcome = "bytes"

\* the scene initViewer builds: four lights, the grid helper, the test cube
InitialScene ==
    <<SceneNode("AmbientLight", 0), SceneNode("DirectionalLight1", 0),
      SceneNode("DirectionalLight2", 0), SceneNode("HemisphereLight", 0),
      SceneNode("GridHelper", 0), SceneNode("TestCube", 0)>>

Init ==
    /\ isLoading = FALSE
    /\ currentModel = NoState
    /\ loads = [i \in LoadIds |-> IdleLoad]
    /\ inputValue = ""
    /\ scene = InitialScene
    /\ model = NoModel
    /\ camera = Camera(Vec(100, 100, 100), CAMERA_CONFIG_near, CAMERA_CONFIG_far)
    /\ controlsTarget = Origin
    /\ diag = NoDiag
    /\ service = NewService
    /\ viewer = NewViewer

---------------------------------------------------------------------------
(* onFileSelected and loadIfcFile.  loadIfcFile suspends at                *)
(* file.arrayBuffer() and at fragmentsService.loadIfc(); everything between *)
(* two suspension points runs as one step.                                  *)

\* a selection that is no file or not an .ifc file: onFileSelected returns
onFileSelectedInvalid(f) ==
    /\ ~(f # NoFile /\ EndsWithIfc(f))
    /\ inputValue' = f
    /\ UNCHANGED <<viewer, service, isLoading, currentModel, loads, scene, model, camera,
                   controlsTarget, diag>>

\* a valid selection: loadIfcFile runs up to await file.arrayBuffer()
onFileSelected(f, i) ==
    /\ f # NoFile /\ EndsWithIfc(f)
    /\ loads[i].pc = "idle"
    /\ \A j \in LoadIds : j < i => loads[j].pc # "idle"
    /\ isLoading' = TRUE
    /\ currentModel' = ModelState(i, ModelName(f))
    /\ loads' = [loads EXCEPT ![i].pc = "reading"]
    /\ inputValue' = f
    /\ UNCHANGED <<viewer, service, scene, model, camera, controlsTarget, diag>>

\* file.arrayBuffer() resolved: loadIfcFile calls loadIfc and suspends
ArrayBufferResolved(i) ==
    /\ loads[i].pc = "reading"
    /\ loads' = [loads EXCEPT ![i].pc = "parsing"]
    /\ UNCHANGED <<viewer, service, isLoading, currentModel, inputValue, scene, model, camera,
                   controlsTarget, diag>>

\* the catch and finally blocks, then onFileSelected resets the input
LoadFailed(i, message) ==
    /\ currentModel' = UpdateState(currentModel,
            [currentModel EXCEPT !.loading = FALSE, !.error = message])
    /\ isLoading' = FALSE
    /\ loads' = [loads EXCEPT ![i].pc = "failed"]
    /\ inputValue' = ""

\* file.arrayBuffer() rejected
ArrayBufferRejected(i) ==
    /\ loads[i].pc = "reading"
    /\ LoadFailed(i, "read failed")
    /\ UNCHANGED <<viewer, service, scene, model, camera, controlsTarget, diag>>

\* fragmentsService.loadIfc() rejected
LoadIfcRejected(i) ==
    /\ loads[i].pc = "parsing"
    /\ LoadFailed(i, "load failed")
    /\ UNCHANGED <<viewer, service, scene, model, camera, controlsTarget, diag>>

\* loadIfc resolved with a uuid getModel does not know: progress is set to
\* 100, then 'Failed to retrieve loaded model' is thrown and caught
LoadIfcResolvedNoModel(i) ==
    /\ loads[i].pc = "parsing"
    /\ currentModel' = UpdateState(currentModel,
            [currentModel EXCEPT !.progress = 100, !.loading = FALSE,
                                 !.error = "Failed to retrieve loaded model"])
    /\ isLoading' = FALSE
    /\ loads' = [loads EXCEPT ![i].pc = "failed"]
    /\ inputValue' = ""
    /\ UNCHANGED <<viewer, service, scene, model, camera, controlsTarget, diag>>

\* loadIfc resolved and getModel returned m: the rest of loadIfcFile
LoadIfcResolved(i, m) ==
    /\ loads[i].pc = "parsing"
    /\ LET w == PostLoadPipeline(
                  [scene |-> scene, model |-> model, camera |-> camera,
                   target |-> controlsTarget, diag |-> NoDiag], m, i)
       IN /\ scene' = w.scene
          /\ model' = w.model
          /\ camera' = w.camera
          /\ controlsTarget' = w.target
          /\ diag' = [w.diag EXCEPT !.trace = Append(@, "stateUpdate")]
    /\ currentModel' = UpdateState(currentModel,
            [currentModel EXCEPT !.loading = FALSE, !.progress = 100,
                                 !.fragmentUuid = i])
    /\ isLoading' = FALSE
    /\ loads' = [loads EXCEPT ![i].pc = "loaded"]
    /\ inputValue' = ""
    /\ UNCHANGED <<viewer, service>>


Next ==
    \/ \E f \in Files : onFileSelectedInvalid(f)
    \/ \E f \in Files, i \in LoadIds : onFileSelected(f, i)
    \/ \E i \in LoadIds : ArrayBufferResolved(i)
    \/ \E i \in LoadIds : ArrayBufferRejected(i)
    \/ \E i \in LoadIds : LoadIfcRejected(i)
    \/ \E i \in LoadIds : LoadIfcResolvedNoModel(i)
    \/ \E i \in LoadIds, m \in Models : LoadIfcResolved(i, m)

Spec == Init /\ [][Next]_vars

---------------------------------------------------------------------------
(* The component from initViewer to ngOnDestroy: file selections, the       *)
(* animation loop, downloads and the teardown, in any order and overlap.    *)
(* The promises of a destroyed component still settle.                      *)

\* the models getModel returns in these runs: one with a mesh, one empty
ViewerModels == {MkModel(0, TRUE, <<1>>), MkModel(0, TRUE, <<>>)}

\* what FragmentsService.exportFragment does: resolve with bytes or with
\* null; a replacement of the service can also reject
ExportOutcomes == {"bytes", "null", "rejected"}

\* the selections, frames, downloads and teardown so far
ViewerCalls ==
    Cardinality({i \in LoadIds : loads[i].pc # "idle"})
    + Cardinality({d \in DownloadIds : viewer.downloads[d].pc # "idle"})
    + viewer.frames
    + (IF viewer.destroyed THEN 1 ELSE 0)

\* a change event of the file input of a component that is not destroyed
fileInputChange(f, i) ==
    /\ ~viewer.destroyed
    /\ ViewerCalls < MaxViewerCalls
    /\ onFileSelected(f, i)

\* the frame callback: animate() requests the next frame, updates the
\* controls and renders
animate ==
    /\ viewer.frameRequested
    /\ ViewerCalls < MaxViewerCalls
    /\ viewer' = [viewer EXCEPT !.frameRequested = TRUE, !.frames = @ + 1]
    /\ UNCHANGED <<isLoading, currentModel, loads, inputValue, scene, model,
                   camera, controlsTarget, diag, service>>

\* downloadFragment() up to its await: it returns when currentModel has no
\* fragmentUuid, else it calls exportFragment(model.fragmentUuid)
downloadFragment(d) ==
    /\ ~viewer.destroyed
    /\ ViewerCalls < MaxViewerCalls
    /\ viewer.downloads[d].pc = "idle"
    /\ \A e \in DownloadIds : e < d => viewer.downloads[e].pc # "idle"
    /\ viewer' =
         IF currentModel.present /\ currentModel.fragmentUuid # 0
         THEN [viewer EXCEPT !.downloads[d].pc = "exporting",
                             !.downloads[d].uuid = currentModel.fragmentUuid,
                             !.downloads[d].name = currentModel.name]
         ELSE [viewer EXCEPT !.downloads[d].pc = "resolved"]
    /\ UNCHANGED <<isLoading, currentModel, loads, inputValue, scene, model,
                   camera, controlsTarget, diag, service>>

\* exportFragment settled: the download, or the catch
exportFragmentSettled(d, outcome) ==
    /\ viewer.downloads[d].pc = "exporting"
    /\ viewer' = [viewer EXCEPT !.downloads[d].pc = "resolved",
                                !.downloads[d].outcome = outcome,
                                !.downloads[d].clicked = Downloaded(outcome)]
    /\ UNCHANGED <<isLoading, currentModel, loads, inputValue, scene, model,
                   camera, controlsTarget, diag, service>>

\* ngOnDestroy(), in which the step throwsAt throws, or none
ngOnDestroy(throwsAt) ==
    /\ ~viewer.destroyed
    /\ ViewerCalls < MaxViewerCalls
    /\ viewer' = [viewer EXCEPT !.destroyed = TRUE,
                                !.frameRequested = FALSE,
                                !.teardown = Teardown(throwsAt),
                                !.logged = (throwsAt # NoThrow)]
    /\ UNCHANGED <<isLoading, currentModel, loads, inputValue, scene, model,
                   camera, controlsTarget, diag, service>>

NextViewer ==
    \/ \E f \in Files, i \in LoadIds : fileInputChange(f, i)
    \/ \E i \in LoadIds : ArrayBufferResolved(i)
    \/ \E i \in LoadIds : ArrayBufferRejected(i)
    \/ \E i \in LoadIds : LoadIfcRejected(i)
    \/ \E i \in LoadIds : LoadIfcResolvedNoModel(i)
    \/ \E i \in LoadIds, m \in ViewerModels : LoadIfcResolved(i, m)
    \/ animate
    \/ \E d \in DownloadIds : downloadFragment(d)
    \/ \E d \in DownloadIds, outcome \in ExportOutcomes :
          exportFragmentSettled(d, outcome)
    \/ \E throwsAt \in {NoThrow} \cup ThrowingSteps : ngOnDestroy(throwsAt)

SpecViewer == Init /\ [][NextViewer]_vars

---------------------------------------------------------------------------
(* The mesh attachment repair on its own: it is applied, and applied again, *)
(* to every model whose item table has at most MaxItems items.              *)

\* all item tables of at most n items
ItemTables(n) == UNION {[1..k -> MeshKinds] : k \in 0..n}

VerifierModels ==
    {MkModel(p, TRUE, k) : p \in 0..2, k \in ItemTables(MaxItems)}
    \cup {MkModel(p, FALSE, <<>>) : p \in 0..2}

InitVerifier ==
    /\ isLoading = FALSE
    /\ currentModel = NoState
    /\ loads = [i \in LoadIds |-> IdleLoad]
    /\ inputValue = ""
    /\ scene = InitialScene
    /\ model \in VerifierModels
    /\ camera = Camera(Vec(100, 100, 100), CAMERA_CONFIG_near, CAMERA_CONFIG_far)
    /\ controlsTarget = Origin
    /\ diag = NoDiag
    /\ service = NewService
    /\ viewer = NewViewer

\* lines 314-324 of loadIfcFile, run on the model as it is now
ReconcileAttachment ==
    /\ Len(diag.trace) < MaxVerifierRuns
    /\ LET w == StepVerifier([scene |-> scene, model |-> model,
                              camera |-> camera, target |-> controlsTarget,
                              diag |-> diag])
       IN /\ model' = w.model
          /\ diag' = w.diag
    /\ UNCHANGED <<viewer, service, isLoading, currentModel, loads, inputValue, scene, camera,
                   controlsTarget>>

NextVerifier == ReconcileAttachment

SpecVerifier == InitVerifier /\ [][NextVerifier]_vars

---------------------------------------------------------------------------
(* The material repair on its own: ensureMaterialsVisible applied, and      *)
(* applied again, to subtrees whose meshes carry every combination of the   *)
(* material fields the repair reads.                                        *)

\* a null material, and the materials with and without a colour field
SanitizerMaterials ==
    {NoMaterial}
    \cup {Material(t, o, s, TRUE, c) :
            t \in BOOLEAN, o \in {0, 10},
            s \in {FrontSide, BackSide, DoubleSide}, c \in {Black, Red}}
    \cup {Material(t, o, s, FALSE, Black) :
            t \in BOOLEAN, o \in {0, 10},
            s \in {FrontSide, BackSide, DoubleSide}}

\* an empty subtree
EmptySubtree == FragmentsModel(100, <<>>, FALSE, <<>>)

\* one mesh whose child.material is one material, or an array of materials
\* (the empty array included)
OneMeshSubtree(mats) ==
    FragmentsModel(100, <<Mesh(1, TRUE, BoxA, 8, Len(mats) # 1, mats)>>,
                   FALSE, <<>>)

\* a group holding a mesh, next to a mesh
GroupSubtree(v, m1, m2) ==
    FragmentsModel(100, <<Group(2, <<Mesh(3, v, BoxB, 8, FALSE, <<m1>>)>>),
                          Mesh(4, TRUE, BoxA, 8, FALSE, <<m2>>)>>,
                   FALSE, <<>>)

InitSanitizer ==
    /\ isLoading = FALSE
    /\ currentModel = NoState
    /\ loads = [i \in LoadIds |-> IdleLoad]
    /\ inputValue = ""
    /\ scene = InitialScene
    /\ \/ model = EmptySubtree
       \/ \E k \in 0..MaxMaterials : \E mats \in [1..k -> SanitizerMaterials] :
             model = OneMeshSubtree(mats)
       \/ \E v \in BOOLEAN, m1 \in SanitizerMaterials, m2 \in SanitizerMaterials :
             model = GroupSubtree(v, m1, m2)
    /\ camera = Camera(Vec(100, 100, 100), CAMERA_CONFIG_near, CAMERA_CONFIG_far)
    /\ controlsTarget = Origin
    /\ diag = NoDiag
    /\ service = NewService
    /\ viewer = NewViewer

\* this.ensureMaterialsVisible(model.object), run on the subtree as it is now
RunSanitizer ==
    /\ Len(diag.trace) < MaxSanitizerRuns
    /\ LET w == StepSanitizer([scene |-> scene, model |-> model,
                               camera |-> camera, target |-> controlsTarget,
                               diag |-> diag])
       IN /\ model' = w.model
          /\ diag' = w.diag
    /\ UNCHANGED <<viewer, service, isLoading, currentModel, loads, inputValue, scene, camera,
                   controlsTarget>>

NextSanitizer == RunSanitizer

SpecSanitizer == InitSanitizer /\ [][NextSanitizer]_vars

---------------------------------------------------------------------------
(* FragmentsService on its own: initialize(), loadIfc() and dispose() are   *)
(* called in any order and overlap at their awaits.                         *)

ComponentUnchanged ==
    UNCHANGED <<isLoading, currentModel, loads, inputValue, scene, model,
                camera, controlsTarget, diag, viewer>>

InitService ==
    /\ isLoading = FALSE
    /\ currentModel = NoState
    /\ loads = [i \in LoadIds |-> IdleLoad]
    /\ inputValue = ""
    /\ scene = InitialScene
    /\ model = NoModel
    /\ camera = Camera(Vec(100, 100, 100), CAMERA_CONFIG_near, CAMERA_CONFIG_far)
    /\ controlsTarget = Origin
    /\ diag = NoDiag
    /\ service = NewService
    /\ viewer = NewViewer

\* initialize() up to its first await: the already-initialized return, or
\* new OBC.Components(), components.get(FragmentsManager) and the fetch
initialize(k) ==
    /\ service.initializes[k] = "idle"
    /\ StartedCalls(service) < MaxServiceCalls
    /\ \A j \in InitializeIds : j < k => service.initializes[j] # "idle"
    /\ service' =
         IF service.initialized
         THEN [service EXCEPT !.initializes[k] = "returned"]
         ELSE [service EXCEPT !.created = @ + 1,
                              !.components = service.created + 1,
                              !.fragmentsManager = service.created + 1,
                              !.initializes[k] = "fetch"]
    /\ ComponentUnchanged

\* the fetch of the worker file rejected, or its response was not ok
initializeFetchFailed(k) ==
    /\ service.initializes[k] = "fetch"
    /\ service' = [service EXCEPT !.initializes[k] = "rejected"]
    /\ ComponentUnchanged

\* the worker file is there: fragmentsManager.init(), the test of its
\* initialized flag, components.get(IfcLoader) and ifcLoader.setup()
initializeFetchOk(k, flagSet) ==
    /\ service.initializes[k] = "fetch"
    /\ service' =
         IF service.fragmentsManager = Null
         THEN [service EXCEPT !.initializes[k] = "rejected"]
         ELSE LET flags == IF flagSet
                           THEN service.managerInitialized
                                  \cup {service.fragmentsManager}
                           ELSE service.managerInitialized
              IN IF service.fragmentsManager \in flags
                 THEN [service EXCEPT !.initCalls = @ + 1,
                                      !.managerInitialized = flags,
                                      !.ifcLoader = service.components,
                                      !.initializes[k] = "setup"]
                 ELSE [service EXCEPT !.initCalls = @ + 1,
                                      !.initializes[k] = "rejected"]
    /\ ComponentUnchanged

\* ifcLoader.setup() resolved: this.initialized = true
initializeSetupResolved(k) ==
    /\ service.initializes[k] = "setup"
    /\ service' = [service EXCEPT !.initialized = TRUE,
                                  !.initializes[k] = "resolved"]
    /\ ComponentUnchanged

\* ifcLoader.setup() rejected
initializeSetupRejected(k) ==
    /\ service.initializes[k] = "setup"
    /\ service' = [service EXCEPT !.initializes[k] = "rejected"]
    /\ ComponentUnchanged

\* loadIfc() up to its await: the two tests, then ifcLoader.load()
loadIfc(j) ==
    /\ service.loadIfcs[j].pc = "idle"
    /\ StartedCalls(service) < MaxServiceCalls
    /\ \A i \in LoadIfcIds : i < j => service.loadIfcs[i].pc # "idle"
    /\ service' =
         IF ~ServiceReady(service)
         THEN [service EXCEPT
                 !.loadIfcs[j].pc = "rejected",
                 !.loadIfcs[j].message = "FragmentsService not initialized"]
         ELSE IF CanLoad(service)
         THEN [service EXCEPT
                 !.loadCalls = @ + 1,
                 !.loadIfcs[j].pc = "loading",
                 !.loadIfcs[j].manager = service.ifcLoader]
         ELSE [service EXCEPT
                 !.loadIfcs[j].pc = "rejected",
                 !.loadIfcs[j].message =
                     "FragmentsManager is not initialized before load()"]
    /\ ComponentUnchanged

\* ifcLoader.load() resolved with a model, which the library has put in the
\* list of the loader's FragmentsManager: loadIfc returns model.modelId
loadIfcLoaderResolved(j) ==
    /\ service.loadIfcs[j].pc = "loading"
    /\ service' =
         [service EXCEPT
            !.list = Append(@, [manager |-> service.loadIfcs[j].manager,
                                id |-> j]),
            !.loadIfcs[j].pc = "resolved",
            !.loadIfcs[j].outcome = "model",
            !.loadIfcs[j].result = j]
    /\ ComponentUnchanged

\* ifcLoader.load() resolved with null
loadIfcLoaderNull(j) ==
    /\ service.loadIfcs[j].pc = "loading"
    /\ service' =
         [service EXCEPT
            !.loadIfcs[j].pc = "rejected",
            !.loadIfcs[j].outcome = "null",
            !.loadIfcs[j].message = "Failed to load IFC model - model is null"]
    /\ ComponentUnchanged

\* ifcLoader.load() rejected
loadIfcLoaderRejected(j) ==
    /\ service.loadIfcs[j].pc = "loading"
    /\ service' =
         [service EXCEPT
            !.loadIfcs[j].pc = "rejected",
            !.loadIfcs[j].outcome = "rejected",
            !.loadIfcs[j].message = "Load failed"]
    /\ ComponentUnchanged

\* the end of dispose(): the rest after the loop, and the promise resolves
DisposeResolved(s, d, loaderThrows, componentsThrows) ==
    [DisposeRest(s, loaderThrows, componentsThrows) EXCEPT
        !.disposes[d].pc = "resolved", !.disposes[d].queue = <<>>]

\* dispose() up to its first await: getAllModels() and the first
\* model.dispose(); without a model it runs to its end
dispose(d, loaderThrows, componentsThrows) ==
    /\ service.disposes[d].pc = "idle"
    /\ StartedCalls(service) < MaxServiceCalls
    /\ \A i \in DisposeIds : i < d => service.disposes[i].pc # "idle"
    /\ LET models == getAllModels(service)
       IN service' =
            IF models = <<>>
            THEN DisposeResolved(service, d, loaderThrows, componentsThrows)
            ELSE [service EXCEPT
                    !.modelDisposeCalls = @ \cup {Head(models)},
                    !.disposes[d] = [pc |-> "models", models |-> models,
                                     queue |-> models]]
    /\ ComponentUnchanged

\* await model.dispose() resolved: the next model, or the rest of dispose()
disposeModelResolved(d, loaderThrows, componentsThrows) ==
    /\ service.disposes[d].pc = "models"
    /\ LET rest == Tail(service.disposes[d].queue)
       IN service' =
            IF rest = <<>>
            THEN DisposeResolved(service, d, loaderThrows, componentsThrows)
            ELSE [service EXCEPT
                    !.modelDisposeCalls = @ \cup {Head(rest)},
                    !.disposes[d].queue = rest]
    /\ ComponentUnchanged

\* await model.dispose() rejected: the catch around the loop logs a warning
\* and the rest of dispose() follows
disposeModelRejected(d, loaderThrows, componentsThrows) ==
    /\ service.disposes[d].pc = "models"
    /\ service' = DisposeResolved(service, d, loaderThrows, componentsThrows)
    /\ ComponentUnchanged

\* exportFragment(id) up to its await: null without a model, else
\* model.getBuffer()
exportFragment(e, id) ==
    /\ service.exports[e].pc = "idle"
    /\ StartedCalls(service) < MaxServiceCalls
    /\ \A i \in ExportIds : i < e => service.exports[i].pc # "idle"
    /\ service' =
         IF getModel(service, id) = Null
         THEN [service EXCEPT !.exports[e] =
                  [pc |-> "resolved", id |-> id, outcome |-> "none",
                   byteLength |-> 0, result |-> "null", length |-> 0]]
         ELSE [service EXCEPT !.exports[e].pc = "buffering",
                              !.exports[e].id = id]
    /\ ComponentUnchanged

\* model.getBuffer() settled: resolved with a buffer or rejected
exportFragmentBufferSettled(e, outcome, byteLength) ==
    /\ service.exports[e].pc = "buffering"
    /\ LET r == Exported(outcome, byteLength)
       IN service' = [service EXCEPT
                        !.exports[e].pc =
                            IF r.result = "rejected" THEN "rejected"
                            ELSE "resolved",
                        !.exports[e].outcome = outcome,
                        !.exports[e].byteLength = byteLength,
                        !.exports[e].result = r.result,
                        !.exports[e].length = r.length]
    /\ ComponentUnchanged

NextService ==
    \/ \E e \in ExportIds, id \in LoadIfcIds : exportFragment(e, id)
    \/ \E e \in ExportIds, n \in BufferLengths :
          exportFragmentBufferSettled(e, "resolved", n)
    \/ \E e \in ExportIds : exportFragmentBufferSettled(e, "rejected", 0)
    \/ \E k \in InitializeIds : initialize(k)
    \/ \E k \in InitializeIds : initializeFetchFailed(k)
    \/ \E k \in InitializeIds, flagSet \in BOOLEAN : initializeFetchOk(k, flagSet)
    \/ \E k \in InitializeIds : initializeSetupResolved(k)
    \/ \E k \in InitializeIds : initializeSetupRejected(k)
    \/ \E j \in LoadIfcIds : loadIfc(j)
    \/ \E j \in LoadIfcIds : loadIfcLoaderResolved(j)
    \/ \E j \in LoadIfcIds : loadIfcLoaderNull(j)
    \/ \E j \in LoadIfcIds : loadIfcLoaderRejected(j)
    \/ \E d \in DisposeIds, lt \in BOOLEAN, ct \in BOOLEAN : dispose(d, lt, ct)
    \/ \E d \in DisposeIds, lt \in BOOLEAN, ct \in BOOLEAN :
          disposeModelResolved(d, lt, ct)
    \/ \E d \in DisposeIds, lt \in BOOLEAN, ct \in BOOLEAN :
          disposeModelRejected(d, lt, ct)

SpecService == InitService /\ [][NextService]_vars

---------------------------------------------------------------------------
(* Properties *)

\* some loadIfcFile invocation has run its pipeline to the end
SomeLoaded == \E i \in LoadIds : loads[i].pc = "loaded"

Count(seq, x) == Len(SelectSeq(seq, LAMBDA e : e = x))

\* the position of the first x in seq, 0 when there is none
IndexOf(seq, x) ==
    IF \E i \in 1..Len(seq) : seq[i] = x
    THEN CHOOSE i \in 1..Len(seq) : seq[i] = x /\ \A j \in 1..(i - 1) : seq[j] # x
    ELSE 0

PipelineSteps == {"Verifier", "Reporter", "Sanitizer", "Fitter"}

EachStepOnce == \A st \in PipelineSteps : Count(diag.trace, st) = 1

\* C1 as stated: after a successful load the steps have run in the order
\* Verifier, Sanitizer, Fitter, Reporter, each once.
C1_OrderAsStated ==
    SomeLoaded =>
        /\ EachStepOnce
        /\ IndexOf(diag.trace, "Verifier") < IndexOf(diag.trace, "Sanitizer")
        /\ IndexOf(diag.trace, "Sanitizer") < IndexOf(diag.trace, "Fitter")
        /\ IndexOf(diag.trace, "Fitter") < IndexOf(diag.trace, "Reporter")

\* C1 (amended): after every successful load the four steps have each run
\* exactly once, one after the other, in the order Verifier, Reporter,
\* Sanitizer, Fitter: the Reporter observes the scene after the Verifier and
\* before the Sanitizer and the Fitter, and the state update comes last.
C1_PipelineOrder ==
    SomeLoaded =>
        /\ EachStepOnce
        /\ IndexOf(diag.trace, "Verifier") < IndexOf(diag.trace, "Reporter")
        /\ IndexOf(diag.trace, "Reporter") < IndexOf(diag.trace, "Sanitizer")
        /\ IndexOf(diag.trace, "Sanitizer") < IndexOf(diag.trace, "Fitter")
        /\ diag.trace[Len(diag.trace)] = "stateUpdate"

\* a successful load whose Verifier attached meshes, whose Sanitizer repaired
\* materials and whose Fitter found a normal bounding box
C1_Witness ==
    /\ SomeLoaded
    /\ diag.addedCount > 0
    /\ diag.materialsFixed > 0
    /\ diag.fit.case = "normal"
    /\ diag.report.meshCount > 0


\* the Verifier has run: diag tells what the root held before its last run
VerifierRan == Count(diag.trace, "Verifier") >= 1

AllItemsHaveMesh(items) == \A i \in 1..Len(items) : items[i].mesh.kind # "null"

\* C2: when every one of the N items carries a mesh and the root had no
\* children when the Verifier ran, the root has exactly N children afterwards,
\* child i being the mesh of item i.
C2_AttachmentCompleteness ==
    (/\ Count(diag.trace, "Verifier") = 1
     /\ diag.beforeAttach.children = <<>>
     /\ AllItemsHaveMesh(model.items))
    => /\ Len(model.object.children) = Len(model.items)
       /\ \A i \in 1..Len(model.items) :
             model.object.children[i] = model.items[i].mesh

\* the Verifier ran on an empty root and a table of two or more meshes
C2_Witness ==
    /\ Count(diag.trace, "Verifier") = 1
    /\ diag.beforeAttach.children = <<>>
    /\ AllItemsHaveMesh(model.items)
    /\ Len(model.items) >= 2
    /\ Len(model.object.children) = Len(model.items)

\* C3 as stated: whenever the table is non-empty and the root was empty, the
\* root has as many children as the table has items.
C3_CountAsStated ==
    (/\ Count(diag.trace, "Verifier") = 1
     /\ diag.beforeAttach.children = <<>>
     /\ model.hasItems /\ Len(model.items) > 0)
    => Len(model.object.children) = Len(model.items)

\* C3 (amended): whenever the table is non-empty and the root was empty, the
\* root has as many children as the table has items with a non-null mesh
\* (items whose mesh is null are skipped), and that number is what the step
\* logs as added.
C3_VerifierGuarantee ==
    (/\ Count(diag.trace, "Verifier") = 1
     /\ diag.beforeAttach.children = <<>>
     /\ model.hasItems /\ Len(model.items) > 0)
    => /\ Len(model.object.children)
            = Cardinality({i \in 1..Len(model.items) :
                               model.items[i].mesh.kind # "null"})
       /\ \A i \in 1..Len(model.object.children) :
             model.object.children[i].kind = "Mesh"
       /\ diag.addedCount = Len(model.object.children)

\* the Verifier ran on an empty root and a table holding a null mesh beside
\* a mesh
C3_Witness ==
    /\ Count(diag.trace, "Verifier") = 1
    /\ diag.beforeAttach.children = <<>>
    /\ Len(model.items) >= 2
    /\ ~AllItemsHaveMesh(model.items)
    /\ Len(model.object.children) >= 1

\* C4: a run of the Verifier that finds children under the root attaches
\* nothing and leaves the children as they are, whatever the item table
\* holds; so the second of two runs in succession changes nothing.
C4_AttachmentIdempotent ==
    VerifierRan =>
        /\ (diag.beforeAttach.children # <<>> =>
               /\ model.object.children = diag.beforeAttach.children
               /\ diag.addedCount = 0
               /\ ~diag.attachEntered)
        /\ (Count(diag.trace, "Verifier") >= 2 =>
               model.object.children = diag.beforeAttach.children)

\* the second run found the meshes the first run had attached
C4_Witness ==
    /\ Count(diag.trace, "Verifier") = 2
    /\ model.hasItems /\ Len(model.items) >= 2
    /\ Len(model.object.children) >= 2
    /\ model.object.children[1].id > 10
    /\ diag.addedCount = 0


---------------------------------------------------------------------------
(* The camera fit.  The pipeline's last run left in diag the bounding-box   *)
(* centre and largest extent it fitted to and the camera it started from.   *)

NormalFit == diag.fit.case = "normal"

\* (maxDim / 2) / tan(30 deg) * 1.5, from tan(30 deg)^2 = 1/3, that is
\* the square root of maxDim^2 * 27 / 16
StatedDistance(maxDim) == Sqrt(RoundDiv(27 * maxDim * maxDim, 16))

\* the largest extent and the centre of the subtree's bounding box
MaxDimOf(object) ==
    LET size == BoxGetSize(SetFromObject(object))
    IN Max3(size[1], size[2], size[3])

Cross(a, b) == Vec(a[2] * b[3] - a[3] * b[2], a[3] * b[1] - a[1] * b[3],
                   a[1] * b[2] - a[2] * b[1])

Dot(a, b) == a[1] * b[1] + a[2] * b[2] + a[3] * b[3]

MaxAbs(a) == Max3(Abs(a[1]), Abs(a[2]), Abs(a[3]))

\* p lies on the ray from the origin through d, up to the rounding of p
OnRay(p, d) ==
    /\ MaxAbs(Cross(p, d)) <= MaxAbs(p) + MaxAbs(d)
    /\ Dot(p, d) > 0

FitterRan == Count(diag.trace, "Fitter") >= 1

\* C7: when the bounding box of the subtree is empty, or has size zero, the
\* Fitter puts the camera at (10, 10, 10) looking at the origin, logs the
\* message of that case (the two messages differ) and the pipeline goes on to
\* its end.
C7_DegenerateFit ==
    FitterRan =>
        LET box == SetFromObject(model.object)
            degenerate == BoxIsEmpty(box) \/ MaxDimOf(model.object) = 0
        IN /\ degenerate =>
                /\ camera.position = Vec(100, 100, 100)
                /\ controlsTarget = Vec(0, 0, 0)
                /\ diag.trace[Len(diag.trace)] = "stateUpdate"
           /\ BoxIsEmpty(box) =>
                diag.errors = <<"Cannot center camera - bounding box is empty!">>
           /\ (~BoxIsEmpty(box) /\ MaxDimOf(model.object) = 0) =>
                diag.errors = <<"Model has zero dimensions!">>
           /\ ~degenerate => diag.errors = <<>>

\* a zero-size model fitted after the camera had been moved by a normal fit
C7_Witness ==
    /\ FitterRan
    /\ diag.fit.case = "zero"
    /\ diag.cameraBefore.position # Vec(100, 100, 100)
    /\ camera.position = Vec(100, 100, 100)

\* C8: in the empty-volume case the camera ends with the default clip planes
\* near 0.1 and far 1000, whatever was loaded before.
C8_FallbackPlanesDefault ==
    (FitterRan /\ diag.fit.case = "empty") =>
        /\ camera.near = CAMERA_CONFIG_near
        /\ camera.far = CAMERA_CONFIG_far

\* C9: in the normal case, with recNear = max(0.1, distanceToCenter / 100)
\* and recFar = max(1000, (distanceToCenter + maxDim) * 2), both planes are
\* replaced by recNear and recFar when near > recNear or far < recFar, and
\* both are left as they were otherwise.
C9_ClipPlanes ==
    NormalFit =>
        LET dist == DistanceTo(camera.position, diag.fit.center)
            recNear == Max2(1, RoundDiv(dist, 100))
            recFar == Max2(10000, (dist + MaxDimOf(model.object)) * 2)
            before == diag.cameraBefore
        IN IF before.near > recNear \/ before.far < recFar
           THEN camera.near = recNear /\ camera.far = recFar
           ELSE camera.near = before.near /\ camera.far = before.far

\* a fit that replaced both planes because the near plane alone was off: the
\* far plane was large enough, and was lowered
C9_Witness ==
    /\ NormalFit
    /\ diag.cameraBefore.near > camera.near
    /\ diag.cameraBefore.far > camera.far
    /\ camera.far = 10000


---------------------------------------------------------------------------
(* The material repair.  The last run left in diag the subtree it started   *)
(* from and the count it reported.                                          *)

SanitizerRan == Count(diag.trace, "Sanitizer") >= 1

\* the geometry nodes of a subtree, in traversal order
MeshesOf(object) == SelectSeq(Traverse(object), IsMesh)

\* the materials of a sequence of geometry nodes, in order
RECURSIVE AllMats(_)
AllMats(nodes) ==
    IF nodes = <<>> THEN <<>> ELSE Head(nodes).mats \o AllMats(Tail(nodes))

MaterialsOf(object) == AllMats(MeshesOf(object))

\* the corrections of each kind, found by comparing before and after
OpacityResets(before, after) ==
    Cardinality({i \in 1..Len(before) : before[i].opacity # after[i].opacity})

SideSwitches(before, after) ==
    Cardinality({i \in 1..Len(before) : before[i].side # after[i].side})

ColourChanges(before, after) ==
    Cardinality({i \in 1..Len(before) : before[i].color # after[i].color})

VisibilityForcings(before, after) ==
    Cardinality({i \in 1..Len(before) :
                    \/ before[i].visible # after[i].visible
                    \/ before[i].frustumCulled # after[i].frustumCulled})

\* C10 as stated: the reported count is the number of corrections applied,
\* the forcing of visibility / disabling of frustum hiding counting like the
\* opacity reset, the side switch and the black-to-gray change.
C10_CountAsStated ==
    SanitizerRan =>
        LET b == MaterialsOf(diag.beforeSanitize)
            a == MaterialsOf(model.object)
        IN diag.materialsFixed =
             OpacityResets(b, a) + SideSwitches(b, a) + ColourChanges(b, a)
             + VisibilityForcings(MeshesOf(diag.beforeSanitize),
                                  MeshesOf(model.object))

\* C10 (amended): the reported count is the number of opacity resets, side
\* switches and black-to-gray changes applied over all materials of all
\* geometry nodes, each counting independently; forcing visibility and
\* disabling frustum hiding are applied but not counted.  The run completes
\* on every subtree: an empty one is left as it is with a count of zero, and
\* a missing material is skipped.
C10_FixCount ==
    SanitizerRan =>
        LET b == MaterialsOf(diag.beforeSanitize)
            a == MaterialsOf(model.object)
        IN /\ Len(a) = Len(b)
           /\ diag.materialsFixed =
                OpacityResets(b, a) + SideSwitches(b, a) + ColourChanges(b, a)
           /\ \A i \in 1..Len(b) : ~b[i].present => a[i] = b[i]
           /\ MeshesOf(diag.beforeSanitize) = <<>> =>
                /\ diag.materialsFixed = 0
                /\ model.object = diag.beforeSanitize

\* a first run that forced an invisible mesh visible, skipped a missing
\* material and applied all three counted corrections to another material
C10_Witness ==
    /\ Count(diag.trace, "Sanitizer") = 1
    /\ diag.materialsFixed = 3
    /\ \E i \in 1..Len(MaterialsOf(model.object)) :
          ~MaterialsOf(model.object)[i].present
    /\ \E i \in 1..Len(MeshesOf(model.object)) :
          /\ ~MeshesOf(diag.beforeSanitize)[i].visible
          /\ MeshesOf(model.object)[i].visible


\* the first run of the material repair on a subtree
FirstSanitizerRun == Count(diag.trace, "Sanitizer") = 1

\* the materials that met the opacity trigger before the run
OpacityTriggered(before) ==
    {i \in 1..Len(before) :
        before[i].present /\ before[i].transparent /\ before[i].opacity = 0}

\* C11: a material with opacity 0 and transparent = true has opacity 1.0 after
\* the run and adds exactly 1 to the count for that correction; a material
\* with opacity 0 that is not transparent keeps opacity 0 and adds nothing for
\* this correction.
C11_OpacityReset ==
    SanitizerRan =>
        LET b == MaterialsOf(diag.beforeSanitize)
            a == MaterialsOf(model.object)
        IN /\ \A i \in OpacityTriggered(b) : a[i].opacity = 10
           /\ \A i \in (1..Len(b)) \ OpacityTriggered(b) :
                 a[i].opacity = b[i].opacity
           /\ diag.materialsFixed - SideSwitches(b, a) - ColourChanges(b, a)
                = Cardinality(OpacityTriggered(b))

\* one mesh with a transparent and an opaque material, both of opacity 0
C11_Witness ==
    /\ FirstSanitizerRun
    /\ LET b == MaterialsOf(diag.beforeSanitize)
           a == MaterialsOf(model.object)
       IN /\ Len(b) = 2
          /\ b[1].present /\ b[1].transparent /\ b[1].opacity = 0
          /\ b[2].present /\ ~b[2].transparent /\ b[2].opacity = 0
          /\ a[1].opacity = 10 /\ a[2].opacity = 0

\* a colour with equal red, green and blue parts that is not black
NeutralGray(color) ==
    /\ color # 0
    /\ color % 256 = (color \div 256) % 256
    /\ color % 256 = color \div 65536

\* C12: after the run every material that had the colour (0,0,0) has a
\* non-black neutral gray, and every material whose colour was not black, or
\* that has no colour field, has its colour as before.
C12_BlackToGray ==
    SanitizerRan =>
        LET b == MaterialsOf(diag.beforeSanitize)
            a == MaterialsOf(model.object)
        IN \A i \in 1..Len(b) :
              /\ a[i].hasColor = b[i].hasColor
              /\ IF b[i].present /\ b[i].hasColor /\ b[i].color = 0
                 THEN NeutralGray(a[i].color)
                 ELSE a[i].color = b[i].color

\* a black material turned gray next to a red one left red
C12_Witness ==
    /\ FirstSanitizerRun
    /\ LET b == MaterialsOf(diag.beforeSanitize)
           a == MaterialsOf(model.object)
       IN /\ Len(b) = 2
          /\ b[1].hasColor /\ b[1].color = 0 /\ a[1].color = 11184810
          /\ b[2].hasColor /\ b[2].color = 16711680 /\ a[2].color = 16711680

\* C13: every front-only material of every mesh is switched to both-sides,
\* every other side is kept, every mesh ends visible with frustum culling
\* off, and every material visited is flagged needsUpdate.
C13_SideAndVisibility ==
    SanitizerRan =>
        LET b == MaterialsOf(diag.beforeSanitize)
            a == MaterialsOf(model.object)
            meshes == MeshesOf(model.object)
        IN /\ \A i \in 1..Len(b) :
                 b[i].present =>
                    /\ a[i].side = IF b[i].side = "FrontSide"
                                   THEN "DoubleSide" ELSE b[i].side
                    /\ a[i].needsUpdate
                    /\ a[i].visible
           /\ \A j \in 1..Len(meshes) :
                 meshes[j].visible /\ ~meshes[j].frustumCulled
           /\ Len(meshes) = Len(MeshesOf(diag.beforeSanitize))

\* an invisible mesh with a front-only material in a group, next to a mesh
\* with a back-only material
C13_Witness ==
    /\ FirstSanitizerRun
    /\ LET b == MaterialsOf(diag.beforeSanitize)
           a == MaterialsOf(model.object)
       IN /\ Len(b) = 2
          /\ ~MeshesOf(diag.beforeSanitize)[1].visible
          /\ b[1].present /\ b[1].side = "FrontSide" /\ a[1].side = "DoubleSide"
          /\ b[2].present /\ b[2].side = "BackSide" /\ a[2].side = "BackSide"


---------------------------------------------------------------------------
(* The nodes of the scene graph across loads.                               *)

Range(seq) == {seq[k] : k \in 1..Len(seq)}

\* the ids of the nodes of a subtree
NodeIds(object) == {n.id : n \in Range(Traverse(object))}

\* the ids of the meshes the parser's item table holds
ItemMeshIds(m) == {it.mesh.id : it \in {x \in Range(m.items) : IsMesh(x.mesh)}}

\* the roots of the models whose load has finished, and the nodes the scene
\* was built with
LoadedRoots == {SceneNode("ModelRoot", i) : i \in {j \in LoadIds : loads[j].pc = "loaded"}}

\* C14 as stated: no node is present in the scene that was neither in the
\* scene nor in the parser's model before the pipeline ran.
C14_NoNodeCreatedAsStated ==
    \A n \in Range(scene) : n \in Range(InitialScene) \/ n.kind = "ModelRoot"

\* C14 (amended): across any number of loads the pipeline destroys no node
\* and creates one kind of node only: the bounding-box helper, added to the
\* scene once for every loaded model whose bounding box is not empty.  The
\* other changes are parent/child edges (the model root added to the scene,
\* item meshes put under the root) and fields of meshes and materials.
C14_OnlyHelperCreated ==
    /\ SubSeq(scene, 1, Len(InitialScene)) = InitialScene
    /\ LoadedRoots \subseteq Range(scene)
    /\ \A n \in Range(scene) :
          \/ n \in Range(InitialScene)
          \/ n \in LoadedRoots
          \/ n.kind = "BoundingBoxHelper"
               /\ SceneNode("ModelRoot", n.ref) \in LoadedRoots
    /\ \A a, b \in 1..Len(scene) : scene[a] = scene[b] => a = b
    /\ SomeLoaded =>
          /\ scene[Len(scene)].kind = "BoundingBoxHelper"
               <=> ~BoxIsEmpty(SetFromObject(model.object))
          /\ NodeIds(model.object)
               = NodeIds(diag.beforeAttach)
                 \cup (IF diag.attachEntered THEN ItemMeshIds(model) ELSE {})

\* two models loaded: the first with a bounding box and a helper, the second
\* without geometry and without a helper
C14_Witness ==
    /\ \A i \in 1..2 : loads[i].pc = "loaded"
    /\ SceneNode("BoundingBoxHelper", 1) \in Range(scene)
    /\ SceneNode("BoundingBoxHelper", 2) \notin Range(scene)
    /\ Len(scene) = Len(InitialScene) + 3


---------------------------------------------------------------------------
(* The empty model, and the report.                                         *)

\* the load that finished is the only one that was started
OnlyFirstLoad ==
    /\ loads[1].pc = "loaded"
    /\ \A i \in LoadIds \ {1} : loads[i].pc = "idle"

\* the parser's model had no item and its root no child
EmptyModelLoaded ==
    SomeLoaded /\ model.items = <<>> /\ diag.beforeAttach.children = <<>>

\* C15: with an empty item table and a root without children the Verifier
\* changes nothing, the Reporter yields meshCount = 0 and isZeroSize = true,
\* and the Fitter applies the fallback frame.  isZeroSize is true exactly when
\* the bounding size is zero on all three axes.  The Reporter changes neither
\* the subtree (the Sanitizer starts from the subtree the Verifier left) nor
\* the camera (the Fitter starts from the camera the pipeline started with).
C15_EmptyModel ==
    SomeLoaded =>
        LET size == BoxGetSize(SetFromObject(model.object))
        IN /\ diag.report.isZeroSize
                <=> (size[1] = 0 /\ size[2] = 0 /\ size[3] = 0)
           /\ diag.report.meshCount = Len(MeshesOf(model.object))
           /\ EmptyModelLoaded =>
                /\ model.object = diag.beforeAttach
                /\ ~diag.attachEntered
                /\ diag.report.meshCount = 0
                /\ diag.report.isZeroSize
                /\ diag.fit.case = "empty"
                /\ camera.position = Vec(100, 100, 100)
                /\ controlsTarget = Vec(0, 0, 0)
           /\ NodeIds(diag.beforeSanitize) = NodeIds(model.object)
           /\ IF diag.attachEntered
              THEN Len(diag.beforeSanitize.children) = diag.addedCount
              ELSE diag.beforeSanitize = diag.beforeAttach
           /\ OnlyFirstLoad =>
                /\ diag.cameraBefore
                     = Camera(Vec(100, 100, 100), CAMERA_CONFIG_near,
                              CAMERA_CONFIG_far)
                /\ diag.targetBefore = Vec(0, 0, 0)

\* an empty model loaded after a model that had moved the camera
C15_Witness ==
    /\ EmptyModelLoaded
    /\ diag.report.meshCount = 0 /\ diag.report.isZeroSize
    /\ diag.fit.case = "empty"
    /\ diag.cameraBefore.position # Vec(100, 100, 100)
    /\ camera.position = Vec(100, 100, 100)


---------------------------------------------------------------------------
(* Invocations of loadIfcFile in flight.                                    *)

\* the invocations suspended at one of the two awaits of loadIfcFile
InFlight == {i \in LoadIds : loads[i].pc \in {"reading", "parsing"}}

\* C16: at most one invocation of loadIfcFile is in flight at any time; a
\* file selection made while isLoading is true does not start another.
C16_SingleInFlight == Cardinality(InFlight) <= 1


---------------------------------------------------------------------------
(* FragmentsService.                                                        *)

\* the service is initialized and its FragmentsManager reports initialized
ReadyToLoad ==
    /\ service.initialized
    /\ service.fragmentsManager # 0
    /\ service.fragmentsManager \in service.managerInitialized

\* C17: loadIfc calls ifcLoader.load only when the service is initialized and
\* its FragmentsManager reports initialized; in every other state it rejects
\* without calling the loader.  When the loader resolves to null or rejects,
\* loadIfc rejects and returns no model id.
C17_LoadIfcGuard ==
    [][\A j \in LoadIfcIds :
         LET before == service.loadIfcs[j]
             after == service'.loadIfcs[j]
         IN /\ (before.pc = "idle" /\ after.pc # "idle") =>
                 IF ReadyToLoad
                 THEN after.pc = "loading"
                      /\ service'.loadCalls = service.loadCalls + 1
                 ELSE after.pc = "rejected" /\ after.result = 0
                      /\ service'.loadCalls = service.loadCalls
            /\ (before.pc = "loading" /\ after.pc # "loading") =>
                 /\ service'.loadCalls = service.loadCalls
                 /\ IF after.outcome = "model"
                    THEN after.pc = "resolved" /\ after.result # 0
                    ELSE after.pc = "rejected" /\ after.result = 0
                         /\ after.outcome \in {"null", "rejected"}
      ]_vars

\* one loadIfc returned a model id, and one made after dispose() was rejected
\* without a call of the loader
C17_Witness ==
    /\ service.loadIfcs[1].pc = "resolved" /\ service.loadIfcs[1].result = 1
    /\ service.disposes[1].pc = "resolved"
    /\ service.loadIfcs[2].pc = "rejected"
    /\ service.loadIfcs[2].outcome = "none"
    /\ service.loadCalls = 1


\* no dispose() has been called
NoDisposeYet == \A d \in DisposeIds : service.disposes[d].pc = "idle"

\* C18: over any sequence or overlap of initialize() calls with no dispose()
\* in between, the Components instance is created and FragmentsManager.init
\* is invoked at most once.
C18_InitializeOnce ==
    NoDisposeYet => (service.created <= 1 /\ service.initCalls <= 1)

\* the step in which dispose() number d resolves
DisposeResolves(d) ==
    /\ service.disposes[d].pc # "resolved"
    /\ service'.disposes[d].pc = "resolved"

\* C19: when dispose() resolves, fragmentsManager, ifcLoader and components
\* are null and isInitialized() is false, whether or not the service was
\* initialized and whether or not disposing a model, the loader or the
\* components throws; every dispose() resolves, the second as the first.
C19_DisposeResets ==
    [][\A d \in DisposeIds :
         /\ DisposeResolves(d) =>
              /\ service'.fragmentsManager = 0
              /\ service'.ifcLoader = 0
              /\ service'.components = 0
              /\ ~service'.initialized
         /\ service.disposes[d].pc # service'.disposes[d].pc =>
              service'.disposes[d].pc \in {"models", "resolved"}
      ]_vars

\* two dispose() calls have resolved; the first found an initialized service
\* with a model, and a model's dispose was cut short or never reached
C19_Witness ==
    /\ \A d \in 1..2 : service.disposes[d].pc = "resolved"
    /\ service.componentsDisposeCalls # {}
    /\ service.disposes[1].models # <<>>
    /\ service.fragmentsManager = 0 /\ service.ifcLoader = 0
    /\ service.components = 0 /\ ~service.initialized

\* C20: a dispose() that resolves has invoked dispose on every model of the
\* FragmentsManager's list, on the IFC loader and on the Components
\* instance, for any number of loaded models.
C20_DisposesEverything ==
    [][\A d \in DisposeIds :
         DisposeResolves(d) =>
            LET models == IF service.disposes[d].pc = "models"
                          THEN service.disposes[d].models
                          ELSE getAllModels(service)
            IN /\ Range(models) \subseteq service'.modelDisposeCalls
               /\ service.ifcLoader # 0 =>
                    service.ifcLoader \in service'.loaderDisposeCalls
               /\ service.components # 0 =>
                    service.components \in service'.componentsDisposeCalls
      ]_vars


\* the fields of the service and the state of the library objects it holds
ServiceState(s) ==
    <<s.components, s.fragmentsManager, s.ifcLoader, s.initialized,
      s.managerInitialized, s.list, s.created, s.initCalls, s.loadCalls,
      s.modelDisposeCalls, s.loaderDisposeCalls, s.componentsDisposeCalls>>

\* C21: exportFragment(id) never rejects.  It resolves to null when the
\* manager is absent, when the manager's list has no model with that id, or
\* when getBuffer fails, and otherwise to a Uint8Array as long as the buffer;
\* it changes no state of the service.
C21_ExportFragment ==
    [][\A e \in ExportIds :
         LET before == service.exports[e]
             after == service'.exports[e]
             found == /\ service.fragmentsManager # 0
                      /\ \E k \in 1..Len(service.list) :
                            /\ service.list[k].manager = service.fragmentsManager
                            /\ service.list[k].id = after.id
         IN before # after =>
              /\ ServiceState(service') = ServiceState(service)
              /\ after.pc \in {"buffering", "resolved"}
              /\ before.pc = "idle" =>
                   IF found THEN after.pc = "buffering"
                   ELSE after.pc = "resolved" /\ after.result = "null"
              /\ before.pc = "buffering" =>
                   /\ after.pc = "resolved"
                   /\ after.outcome = "rejected" => after.result = "null"
                   /\ after.outcome = "resolved" =>
                        /\ after.result = "bytes"
                        /\ after.length = after.byteLength
      ]_vars

\* one export resolved to ten bytes, one to null after getBuffer failed or
\* the model was not found
C21_Witness ==
    /\ \E e \in ExportIds :
          /\ service.exports[e].pc = "resolved"
          /\ service.exports[e].result = "bytes"
          /\ service.exports[e].length = 10
    /\ \E e \in ExportIds :
          /\ service.exports[e].pc = "resolved"
          /\ service.exports[e].result = "null"

\* C26: in every reachable state of the service, isInitialized() = true
\* implies that components, fragmentsManager and ifcLoader are all non-null.
C26_InitializedHasFields ==
    isInitialized(service) =>
        /\ service.components # Null
        /\ service.fragmentsManager # Null
        /\ service.ifcLoader # Null

\* C22: when a loadIfcFile invocation ends, isLoading is false; if it
\* failed, currentModel has loading = false, a non-empty error and no
\* fragmentUuid; if it succeeded, currentModel has loading = false,
\* progress = 100 and fragmentUuid set.
C22_LoadingCleared ==
    [][\A i \in LoadIds :
         /\ (loads[i].pc # "failed" /\ loads'[i].pc = "failed") =>
               /\ isLoading' = FALSE
               /\ currentModel'.loading = FALSE
               /\ currentModel'.error # ""
               /\ currentModel'.fragmentUuid = 0
         /\ (loads[i].pc # "loaded" /\ loads'[i].pc = "loaded") =>
               /\ isLoading' = FALSE
               /\ currentModel'.loading = FALSE
               /\ currentModel'.progress = 100
               /\ currentModel'.fragmentUuid # 0
      ]_vars

\* C27: whenever currentModel has fragmentUuid set, the uuid is the one
\* loadIfc returned to the loadIfcFile invocation that created that
\* ModelState.  Invocation i creates the ModelState with id i and receives
\* uuid i.
C27_UuidOfSameInvocation ==
    (currentModel.present /\ currentModel.fragmentUuid # 0) =>
        currentModel.fragmentUuid = currentModel.id

\* the names that end in '.ifc' whatever the case of their letters
IfcNames == {"house.ifc", "PLAN.IFC"}

\* loadIfcFile invocation i ends in this step
LoadEnds(i) ==
    /\ loads[i].pc \notin {"loaded", "failed"}
    /\ loads'[i].pc \in {"loaded", "failed"}

\* C23: a selection of no file or of a file whose name does not end in
\* '.ifc', case-insensitively, starts no load, calls no loadIfc and leaves
\* isLoading, currentModel, the scene and the camera unchanged: a load is
\* started only by a selection of an .ifc name, and a step that belongs to
\* no load changes none of them.  When the load of a valid selection ends,
\* in success or in failure, the input value is reset to empty.
C23_InvalidSelection ==
    [][/\ \A i \in LoadIds :
            (loads[i].pc = "idle" /\ loads'[i].pc # "idle") =>
                inputValue' \in IfcNames
       /\ (/\ inputValue' # inputValue
           /\ inputValue' \notin IfcNames
           /\ ~\E i \in LoadIds : LoadEnds(i)) =>
            UNCHANGED <<loads, isLoading, currentModel, scene, model, camera,
                        controlsTarget, service>>
       /\ loads' = loads =>
            UNCHANGED <<isLoading, currentModel, scene, model, camera,
                        controlsTarget, service>>
       /\ \A i \in LoadIds : LoadEnds(i) => inputValue' = ""
      ]_vars

\* an invalid file was selected after a load had ended, and another load
\* that had been started is still suspended
C23_Witness ==
    /\ inputValue = "notes.txt"
    /\ \E i \in LoadIds : loads[i].pc \in {"loaded", "failed"}
    /\ \E i \in LoadIds : loads[i].pc \in {"reading", "parsing"}
    /\ isLoading

\* C24: downloadFragment calls exportFragment only when currentModel is
\* non-null with fragmentUuid set, so never while a load is in progress or
\* after a failed load; when the export resolves to null or rejects there
\* is no download and downloadFragment does not reject.
C24_DownloadGuard ==
    [][\A d \in DownloadIds :
         /\ (/\ viewer.downloads[d].pc = "idle"
             /\ viewer'.downloads[d].pc = "exporting") =>
               /\ currentModel.present
               /\ currentModel.fragmentUuid # 0
               /\ InFlight = {}
               /\ currentModel.error = ""
         /\ (/\ viewer.downloads[d].pc = "exporting"
             /\ viewer'.downloads[d].pc # "exporting"
             /\ viewer'.downloads[d].outcome \in {"null", "rejected"}) =>
               /\ viewer'.downloads[d].pc = "resolved"
               /\ ~viewer'.downloads[d].clicked
      ]_vars

\* the calls of ngOnDestroy the teardown is stated in terms of
StatedTeardown ==
    {"cancelAnimationFrame", "controls.dispose", "resizeObserver.disconnect",
     "renderer.dispose", "fragmentsService.dispose"}

\* C25: every ngOnDestroy cancels the pending animation frame, disposes the
\* controls, disconnects the resize observer, disposes the renderer and
\* invokes FragmentsService.dispose(), whatever the outcome of each teardown
\* step; a step that throws is logged and ngOnDestroy does not throw.
C25_TeardownComplete ==
    viewer.destroyed =>
        /\ StatedTeardown \subseteq Range(viewer.teardown)
        /\ ~viewer.frameRequested
        /\ ~viewer.threw

C28_PlanesInRange ==
    /\ CAMERA_CONFIG_near <= camera.near
    /\ camera.near < camera.far
    /\ CAMERA_CONFIG_far <= camera.far
    /\ NormalFit =>
         LET dist == DistanceTo(camera.position, diag.fit.center)
         IN /\ camera.near <= Max2(1, RoundDiv(dist, 100))
            /\ camera.far >= Max2(10000, (dist + MaxDimOf(model.object)) * 2)

\* a normal fit of a large model after another load: both planes are above
\* the configured ones
C28_Witness ==
    /\ NormalFit
    /\ \A i \in LoadIds : loads[i].pc = "loaded"
    /\ camera.near > CAMERA_CONFIG_near
    /\ camera.far > CAMERA_CONFIG_far

\* a material that meets one of the three repair triggers
MeetsTrigger(material) ==
    /\ material.present
    /\ \/ material.transparent /\ material.opacity = 0
       \/ material.side = FrontSide
       \/ material.hasColor /\ material.color = Black

\* C30: after a run over a subtree no material of a geometry node in it
\* meets a repair trigger, and a second run over the same subtree reports
\* zero fixes and changes no opacity, culling mode or colour.
C30_SanitizerIdempotent ==
    SanitizerRan =>
        LET b == MaterialsOf(diag.beforeSanitize)
            a == MaterialsOf(model.object)
        IN /\ \A i \in 1..Len(a) : ~MeetsTrigger(a[i])
           /\ Count(diag.trace, "Sanitizer") = 2 =>
                /\ diag.materialsFixed = 0
                /\ Len(a) = Len(b)
                /\ \A i \in 1..Len(b) :
                      /\ a[i].opacity = b[i].opacity
                      /\ a[i].side = b[i].side
                      /\ a[i].color = b[i].color
                /\ model.object = diag.beforeSanitize

\* a second run has been made over a subtree that has a transparent
\* material with full opacity, two-sided rendering and the neutral gray
C30_Witness ==
    /\ Count(diag.trace, "Sanitizer") = 2
    /\ \E i \in 1..Len(MaterialsOf(model.object)) :
          LET material == MaterialsOf(model.object)[i]
          IN /\ material.present
             /\ material.transparent
             /\ material.opacity = 10
             /\ material.side = DoubleSide
             /\ material.color = Gray

=============================================================================
